---- MODULE Spec2Model ----
(***************************************************************************)
(* A model of separate_harmony_by_original_track_rank (src/main.py): the   *)
(* chords of every original MIDI track are split by pitch rank onto newly  *)
(* allocated output tracks.  The state is the function's local variables,  *)
(* one action is one iteration of one of its loops.                        *)
(***************************************************************************)
EXTENDS Integers, Sequences, FiniteSets, TLC

\* Bounds of the explored inputs.
MaxLen == 3
MaxTracks == 2
MaxMsgs == 3

(***************************************************************************)
(* Messages (mido.Message / mido.MetaMessage).  A meta message carries no  *)
(* note, velocity or channel: those fields hold -1.                        *)
(***************************************************************************)
Message(ty, n, v, c, t) ==
    [type |-> ty, note |-> n, velocity |-> v, channel |-> c, time |-> t]

MetaMessage(ty, t) == Message(ty, -1, -1, -1, t)

Pitches == {60, 64, 67}
Deltas == {0, 1}

\* The messages single-track inputs are built from.
Msgs ==
    {Message("note_on", p, 64, 0, d) : p \in Pitches, d \in Deltas}
    \cup {Message("note_off", p, 64, 0, d) : p \in Pitches, d \in Deltas}
    \cup {Message("note_on", 60, 0, 0, d) : d \in Deltas}
    \cup {MetaMessage(ty, d) : ty \in {"set_tempo", "end_of_track"}, d \in Deltas}

\* The (smaller) alphabet multi-track inputs are built from.
MultiMsgs ==
    { Message("note_on", 60, 64, 0, 0), Message("note_on", 64, 64, 0, 0),
      Message("note_on", 64, 64, 0, 1), Message("note_off", 60, 64, 0, 1),
      MetaMessage("set_tempo", 0), MetaMessage("end_of_track", 1) }

\* Scenario B of the specification: a 3-note chord released at tick 480.
ScenarioB ==
    << << Message("note_on", 60, 64, 0, 0), Message("note_on", 64, 64, 0, 0),
          Message("note_on", 67, 64, 0, 0), Message("note_off", 60, 64, 0, 480),
          Message("note_off", 64, 64, 0, 0), Message("note_off", 67, 64, 0, 0) >> >>

\* Scenario C of the specification: pitch 60 re-sounds at tick 100.
ScenarioC ==
    << << Message("note_on", 60, 64, 0, 0), Message("note_on", 60, 64, 0, 100) >> >>

\* Scenario E of the specification: two original tracks of one note each.
ScenarioE ==
    << << Message("note_on", 60, 64, 0, 0), Message("note_off", 60, 64, 0, 1) >>,
       << Message("note_on", 64, 64, 0, 0), Message("note_off", 64, 64, 0, 1) >> >>

\* s cut into n consecutive tracks at the (non-decreasing) cut points c.
Split(s, n, c) ==
    [i \in 1..n |->
        SubSeq(s, (IF i = 1 THEN 0 ELSE c[i - 1]) + 1,
                  IF i = n THEN Len(s) ELSE c[i])]

\* The cut points that split a sequence of length len into n tracks.
Cuts(len, n) ==
    {c \in [1..(n - 1) -> 0..len] : \A i \in 1..(n - 2) : c[i] <= c[i + 1]}

VARIABLES
    tracks,                 \* original_mid.tracks
    new_mid_tracks,         \* new_mid.tracks
    all_output_events_for_new_tracks,
    next_global_output_track_idx_to_assign,
    original_track_idx,
    events_grouped_by_time_this_orig_track,
    sorted_abs_times_this_orig_track,
    rank_to_global_output_idx_map_this_orig_track,
    active_notes_pitch_to_global_output_idx_this_orig_track,
    global_output_idx_for_non_notes_this_orig_track,
    abs_time,
    current_note_ons_this_orig_track,
    current_note_offs_this_orig_track,
    current_other_msgs_this_orig_track,
    rank_in_orig_track_chord,
    new_track_idx,
    group_i,                \* position of the loop over sorted_abs_times (line 76)
    off_i,                  \* position of the loop over the note-offs (line 92)
    pc

globals == <<tracks, new_mid_tracks, all_output_events_for_new_tracks,
             next_global_output_track_idx_to_assign, original_track_idx,
             new_track_idx>>
perTrack == <<events_grouped_by_time_this_orig_track,
              sorted_abs_times_this_orig_track,
              rank_to_global_output_idx_map_this_orig_track,
              active_notes_pitch_to_global_output_idx_this_orig_track,
              global_output_idx_for_non_notes_this_orig_track>>
perGroup == <<abs_time, current_note_ons_this_orig_track,
              current_note_offs_this_orig_track,
              current_other_msgs_this_orig_track, rank_in_orig_track_chord,
              group_i, off_i>>
vars == <<globals, perTrack, perGroup, pc>>

\* Short names of the per-track maps.
RankMap == rank_to_global_output_idx_map_this_orig_track
ActivePitchMap == active_notes_pitch_to_global_output_idx_this_orig_track
NonNoteTarget == global_output_idx_for_non_notes_this_orig_track
Buffers == all_output_events_for_new_tracks

(***************************************************************************)
(* Pure helpers.                                                           *)
(***************************************************************************)
EmptyMap == <<>>

Front(s) == SubSeq(s, 1, Len(s) - 1)
Last(s) == s[Len(s)]

IsNoteOn(msg) == msg.type = "note_on" /\ msg.velocity > 0
IsNoteOff(msg) ==
    msg.type = "note_off" \/ (msg.type = "note_on" /\ msg.velocity = 0)
IsOther(msg) == ~IsNoteOn(msg) /\ ~IsNoteOff(msg)

\* Running sum of the relative times up to message i (lines 45-47).
RECURSIVE SumTimes(_, _)
SumTimes(track, i) ==
    IF i = 0 THEN 0 ELSE SumTimes(track, i - 1) + track[i].time

\* events_with_abs_time_this_orig_track before sorting (lines 44-48).
EventsWithAbsTime(track) ==
    [i \in 1..Len(track) |-> [abs_time |-> SumTimes(track, i), msg |-> track[i]]]

\* A sort that is not stable: an event goes before the events of its time.
RECURSIVE InsertByAbsTimeUnstable(_, _)
InsertByAbsTimeUnstable(sorted, e) ==
    IF sorted = <<>> THEN <<e>>
    ELSE IF Last(sorted).abs_time >= e.abs_time
         THEN Append(InsertByAbsTimeUnstable(Front(sorted), e), Last(sorted))
         ELSE Append(sorted, e)

\* list.sort(key=abs_time): stable, ascending (lines 51 and 182).
RECURSIVE InsertByAbsTime(_, _)
InsertByAbsTime(sorted, e) ==
    IF sorted = <<>> THEN <<e>>
    ELSE IF Last(sorted).abs_time > e.abs_time
         THEN Append(InsertByAbsTime(Front(sorted), e), Last(sorted))
         ELSE Append(sorted, e)

RECURSIVE SortPrefixByAbsTime(_, _)
SortPrefixByAbsTime(evs, n) ==
    IF n = 0 THEN <<>>
    ELSE InsertByAbsTime(SortPrefixByAbsTime(evs, n - 1), evs[n])

SortByAbsTime(evs) == SortPrefixByAbsTime(evs, Len(evs))

\* The messages of the events at time t, in list order (lines 55-59).
MsgsAt(evs, t) ==
    LET AtT(e) == e.abs_time = t
        sel == SelectSeq(evs, AtT)
    IN  [i \in 1..Len(sel) |-> sel[i].msg]

\* events_grouped_by_time_this_orig_track (lines 54-59).
GroupByTime(evs) ==
    [t \in {evs[i].abs_time : i \in 1..Len(evs)} |-> MsgsAt(evs, t)]

\* sorted(keys): ascending (line 74).
RECURSIVE SortedKeys(_)
SortedKeys(S) ==
    IF S = {} THEN <<>>
    ELSE LET m == CHOOSE x \in S : \A y \in S : x <= y
         IN  <<m>> \o SortedKeys(S \ {m})

\* Mutant of InsertByNoteDesc: the sort without reverse=True (ascending).
RECURSIVE InsertByNoteAsc(_, _)
InsertByNoteAsc(sorted, m) ==
    IF sorted = <<>> THEN <<m>>
    ELSE IF Last(sorted).note > m.note
         THEN Append(InsertByNoteAsc(Front(sorted), m), Last(sorted))
         ELSE Append(sorted, m)

\* sorted(key=note, reverse=True): stable, descending (line 107).
RECURSIVE InsertByNoteDesc(_, _)
InsertByNoteDesc(sorted, m) ==
    IF sorted = <<>> THEN <<m>>
    ELSE IF Last(sorted).note < m.note
         THEN Append(InsertByNoteDesc(Front(sorted), m), Last(sorted))
         ELSE Append(sorted, m)

RECURSIVE SortPrefixByNoteDesc(_, _)
SortPrefixByNoteDesc(msgs, n) ==
    IF n = 0 THEN <<>>
    ELSE InsertByNoteDesc(SortPrefixByNoteDesc(msgs, n - 1), msgs[n])

sorted_note_ons_in_chord ==
    SortPrefixByNoteDesc(current_note_ons_this_orig_track,
                         Len(current_note_ons_this_orig_track))

\* "if idx not in d: d[idx] = []; d[idx].append(e)" (lines 96-98, 136-138,
\* 143-145, 159-162).
AppendEvent(buf, idx, e) ==
    IF idx \in DOMAIN buf
    THEN [buf EXCEPT ![idx] = Append(@, e)]
    ELSE buf @@ (idx :> <<e>>)

Event(t, msg) == [abs_time |-> t, msg |-> msg]

\* Mutant of Delete: the entry is not removed.
DeleteNothing(d, k) == d

\* del d[k] (line 100).
Delete(d, k) == [x \in DOMAIN d \ {k} |-> d[x]]

\* d[k] = v (lines 117, 148).
Store(d, k, v) == [x \in DOMAIN d \cup {k} |-> IF x = k THEN v ELSE d[x]]

\* Where control goes inside one time group (lines 92, 105, 151, 76).
PhaseFrom(offsLeft, onsLeft, others) ==
    IF offsLeft THEN "note_offs"
    ELSE IF onsLeft THEN "note_ons"
    ELSE IF others # <<>> THEN "others"
    ELSE "groups"

(***************************************************************************)
(* Initial state: the decoded input, nothing allocated.                    *)
(***************************************************************************)
InitLocals ==
    /\ new_mid_tracks = <<>>
    /\ all_output_events_for_new_tracks = EmptyMap
    /\ next_global_output_track_idx_to_assign = 0
    /\ original_track_idx = 0
    /\ events_grouped_by_time_this_orig_track = EmptyMap
    /\ sorted_abs_times_this_orig_track = <<>>
    /\ rank_to_global_output_idx_map_this_orig_track = EmptyMap
    /\ active_notes_pitch_to_global_output_idx_this_orig_track = EmptyMap
    /\ global_output_idx_for_non_notes_this_orig_track = -1
    /\ abs_time = 0
    /\ current_note_ons_this_orig_track = <<>>
    /\ current_note_offs_this_orig_track = <<>>
    /\ current_other_msgs_this_orig_track = <<>>
    /\ rank_in_orig_track_chord = 0
    /\ new_track_idx = 0
    /\ group_i = 1
    /\ off_i = 1
    /\ pc = "tracks"

\* Inputs with exactly one original track of at most MaxLen messages, and
\* Scenarios B and C.
Init ==
    /\ \/ \E k \in 0..MaxLen : \E t \in [1..k -> Msgs] : tracks = <<t>>
       \/ tracks \in {ScenarioB, ScenarioC}
    /\ InitLocals

\* Inputs of at most MaxTracks original tracks holding at most MaxMsgs
\* messages together, and Scenario E.
InitMulti ==
    /\ \/ tracks = ScenarioE
       \/ \E k \in 0..MaxMsgs : \E s \in [1..k -> MultiMsgs] :
             \E n \in 0..MaxTracks :
                /\ n = 0 => k = 0
                /\ \E c \in Cuts(k, n) : tracks = Split(s, n, c)
    /\ InitLocals

\* Inputs with one original track of at most MaxLen messages whose notes are
\* on two MIDI channels.
Channels == {0, 1}

ChanMsgs ==
    {Message(ty, 60, 64, c, d) :
        ty \in {"note_on", "note_off"}, c \in Channels, d \in Deltas}
    \cup {Message("note_on", 64, 64, 0, 0), MetaMessage("set_tempo", 0)}

InitChan ==
    /\ \E k \in 0..MaxLen : \E t \in [1..k -> ChanMsgs] : tracks = <<t>>
    /\ InitLocals

(***************************************************************************)
(* Line 63: the rank map every original track starts with.  A map that     *)
(* outlives its original track would send the next track's notes to the    *)
(* previous track's output tracks.                                         *)
(***************************************************************************)
RankMapCarriedOver ==
    rank_to_global_output_idx_map_this_orig_track

RankMapAtTrackStart ==
    EmptyMap

(***************************************************************************)
(* Lines 40-74: enter the next original track: flatten, sort, group, and   *)
(* reset the per-track maps.                                               *)
(***************************************************************************)
BeginTrack ==
    /\ pc = "tracks"
    /\ original_track_idx < Len(tracks)
    /\ LET evs == SortByAbsTime(EventsWithAbsTime(tracks[original_track_idx + 1]))
           grouped == GroupByTime(evs)
       IN  /\ events_grouped_by_time_this_orig_track' = grouped
           /\ sorted_abs_times_this_orig_track' = SortedKeys(DOMAIN grouped)
    /\ rank_to_global_output_idx_map_this_orig_track' = RankMapAtTrackStart
    /\ active_notes_pitch_to_global_output_idx_this_orig_track' = EmptyMap
    /\ global_output_idx_for_non_notes_this_orig_track' = -1
    /\ group_i' = 1
    /\ pc' = "groups"
    /\ UNCHANGED <<globals, abs_time, current_note_ons_this_orig_track,
                   current_note_offs_this_orig_track,
                   current_other_msgs_this_orig_track,
                   rank_in_orig_track_chord, off_i>>

(***************************************************************************)
(* Lines 76-89: take the next time group and classify its messages.        *)
(***************************************************************************)
BeginGroup ==
    /\ pc = "groups"
    /\ group_i <= Len(sorted_abs_times_this_orig_track)
    /\ LET t == sorted_abs_times_this_orig_track[group_i]
           messages_at_this_abs_time == events_grouped_by_time_this_orig_track[t]
           ons == SelectSeq(messages_at_this_abs_time, IsNoteOn)
           offs == SelectSeq(messages_at_this_abs_time, IsNoteOff)
           others == SelectSeq(messages_at_this_abs_time, IsOther)
       IN  /\ abs_time' = t
           /\ current_note_ons_this_orig_track' = ons
           /\ current_note_offs_this_orig_track' = offs
           /\ current_other_msgs_this_orig_track' = others
           /\ pc' = PhaseFrom(offs # <<>>, ons # <<>>, others)
    /\ group_i' = group_i + 1
    /\ off_i' = 1
    /\ rank_in_orig_track_chord' = 0
    /\ UNCHANGED <<globals, perTrack>>

(***************************************************************************)
(* Lines 93-98: the buffers after one note-off: the note-off joins the     *)
(* buffer of the track its pitch sounds on; a note-off whose pitch is not  *)
(* in the active map is appended nowhere.  A variant that kept the         *)
(* unmatched note-off on the first output track is written first.          *)
(***************************************************************************)
UnmatchedOffKept(off_msg) ==
    AppendEvent(all_output_events_for_new_tracks,
                IF off_msg.note \in
                       DOMAIN active_notes_pitch_to_global_output_idx_this_orig_track
                THEN active_notes_pitch_to_global_output_idx_this_orig_track[off_msg.note]
                ELSE 0,
                Event(abs_time, off_msg))

BuffersAfterNoteOff(off_msg) ==
    IF off_msg.note \in DOMAIN active_notes_pitch_to_global_output_idx_this_orig_track
    THEN LET target_global_output_idx ==
                 active_notes_pitch_to_global_output_idx_this_orig_track[off_msg.note]
         IN  AppendEvent(all_output_events_for_new_tracks,
                         target_global_output_idx,
                         Event(abs_time, off_msg))
    ELSE all_output_events_for_new_tracks

(***************************************************************************)
(* Lines 92-100: one note-off of the group.                                *)
(***************************************************************************)
NoteOffStep ==
    /\ pc = "note_offs"
    /\ LET off_msg == current_note_offs_this_orig_track[off_i]
       IN  /\ all_output_events_for_new_tracks' = BuffersAfterNoteOff(off_msg)
           /\ active_notes_pitch_to_global_output_idx_this_orig_track' =
                  IF off_msg.note \in
                         DOMAIN active_notes_pitch_to_global_output_idx_this_orig_track
                  THEN Delete(active_notes_pitch_to_global_output_idx_this_orig_track,
                              off_msg.note)
                  ELSE active_notes_pitch_to_global_output_idx_this_orig_track
    /\ off_i' = off_i + 1
    /\ pc' = PhaseFrom(off_i + 1 <= Len(current_note_offs_this_orig_track),
                       current_note_ons_this_orig_track # <<>>,
                       current_other_msgs_this_orig_track)
    /\ UNCHANGED <<tracks, new_mid_tracks, next_global_output_track_idx_to_assign,
                   original_track_idx, new_track_idx,
                   events_grouped_by_time_this_orig_track,
                   sorted_abs_times_this_orig_track,
                   rank_to_global_output_idx_map_this_orig_track,
                   global_output_idx_for_non_notes_this_orig_track,
                   abs_time, current_note_ons_this_orig_track,
                   current_note_offs_this_orig_track,
                   current_other_msgs_this_orig_track,
                   rank_in_orig_track_chord, group_i>>

\* Mutant of RankIsNew: every note-on allocates a new output track.
RankAlwaysNew(rank) == TRUE

\* Line 115: the rank has no output track yet in this original track.
RankIsNew(rank) ==
    rank \notin DOMAIN rank_to_global_output_idx_map_this_orig_track

\* Mutant of Advance: the counter skips an index.
AdvanceByTwo(counter) == counter + 2

\* Lines 125 and 157: the global counter moves on.
Advance(counter) == counter + 1

\* Mutant of TargetOfRank: a known rank is not looked up.
TargetAlwaysNext(rank) == next_global_output_track_idx_to_assign

\* Mutant of TargetOfRank: every note of a chord goes to the rank-0 track.
TargetOfTopVoice(rank) ==
    IF 0 \notin DOMAIN rank_to_global_output_idx_map_this_orig_track
    THEN next_global_output_track_idx_to_assign
    ELSE rank_to_global_output_idx_map_this_orig_track[0]

\* The output track index of a rank (lines 115-128): the stored one, or the
\* next free one for a rank seen for the first time.
TargetOfRank(rank) ==
    IF RankIsNew(rank)
    THEN next_global_output_track_idx_to_assign
    ELSE rank_to_global_output_idx_map_this_orig_track[rank]

\* Mutant of RetriggerOffTarget: the synthetic note-off goes to the new target.
RetriggerOffToNewTarget(previous, target) == target

\* The buffer a retrigger's synthetic note-off is appended to (lines 132, 138).
RetriggerOffTarget(previous, target) == previous

\* The synthetic note-off of a retrigger (line 134).
forced_off_msg(note_on_msg) ==
    Message("note_off", note_on_msg.note, 0, note_on_msg.channel, 0)

(***************************************************************************)
(* Lines 117-121: the non-note target after the rank of a note-on has been *)
(* looked up: the track allocated for rank 0, if the rank is new and no    *)
(* target is set yet.  Two variants are written first: one without lines   *)
(* 120-121, one without the test of line 120 for an unset target.          *)
(***************************************************************************)
NonNoteTargetNotSetByRank(rank) ==
    global_output_idx_for_non_notes_this_orig_track

NonNoteTargetOverwritten(rank) ==
    IF RankIsNew(rank) /\ rank = 0
    THEN next_global_output_track_idx_to_assign
    ELSE global_output_idx_for_non_notes_this_orig_track

NonNoteTargetAfterRank(rank) ==
    IF RankIsNew(rank) /\ rank = 0
       /\ global_output_idx_for_non_notes_this_orig_track = -1
    THEN next_global_output_track_idx_to_assign
    ELSE global_output_idx_for_non_notes_this_orig_track

(***************************************************************************)
(* Lines 109-148: one note-on of the chord, in rank order.                 *)
(***************************************************************************)
NoteOnStep ==
    /\ pc = "note_ons"
    /\ LET rank == rank_in_orig_track_chord
           note_on_msg == sorted_note_ons_in_chord[rank + 1]
           fresh == RankIsNew(rank)
           target_global_output_idx_for_this_note == TargetOfRank(rank)
           retrigger ==
               note_on_msg.note \in
                   DOMAIN active_notes_pitch_to_global_output_idx_this_orig_track
           afterOff ==
               IF retrigger
               THEN AppendEvent(
                        all_output_events_for_new_tracks,
                        RetriggerOffTarget(
                            active_notes_pitch_to_global_output_idx_this_orig_track[
                                note_on_msg.note],
                            target_global_output_idx_for_this_note),
                        Event(abs_time, forced_off_msg(note_on_msg)))
               ELSE all_output_events_for_new_tracks
       IN  /\ rank_to_global_output_idx_map_this_orig_track' =
                  IF fresh
                  THEN Store(rank_to_global_output_idx_map_this_orig_track, rank,
                             next_global_output_track_idx_to_assign)
                  ELSE rank_to_global_output_idx_map_this_orig_track
           /\ global_output_idx_for_non_notes_this_orig_track' =
                  NonNoteTargetAfterRank(rank)
           /\ next_global_output_track_idx_to_assign' =
                  IF fresh THEN Advance(next_global_output_track_idx_to_assign)
                  ELSE next_global_output_track_idx_to_assign
           /\ all_output_events_for_new_tracks' =
                  AppendEvent(afterOff, target_global_output_idx_for_this_note,
                              Event(abs_time, note_on_msg))
           /\ active_notes_pitch_to_global_output_idx_this_orig_track' =
                  Store(active_notes_pitch_to_global_output_idx_this_orig_track,
                        note_on_msg.note, target_global_output_idx_for_this_note)
    /\ rank_in_orig_track_chord' = rank_in_orig_track_chord + 1
    /\ pc' = PhaseFrom(FALSE,
                       rank_in_orig_track_chord + 1
                           < Len(current_note_ons_this_orig_track),
                       current_other_msgs_this_orig_track)
    /\ UNCHANGED <<tracks, new_mid_tracks, original_track_idx, new_track_idx,
                   events_grouped_by_time_this_orig_track,
                   sorted_abs_times_this_orig_track,
                   abs_time, current_note_ons_this_orig_track,
                   current_note_offs_this_orig_track,
                   current_other_msgs_this_orig_track, group_i, off_i>>

\* Appends the events of msgs, all at time t, to buffer idx (lines 159-162).
\* A loop that stops after the first message of the group.
AppendOnlyFirst(buf, idx, t, msgs) ==
    IF msgs = <<>> THEN buf
    ELSE AppendEvent(buf, idx, Event(t, Head(msgs)))

RECURSIVE AppendAll(_, _, _, _)
AppendAll(buf, idx, t, msgs) ==
    IF msgs = <<>> THEN buf
    ELSE AppendAll(AppendEvent(buf, idx, Event(t, Head(msgs))), idx, t, Tail(msgs))

(***************************************************************************)
(* Lines 151-162: the non-note messages of the group.                      *)
(***************************************************************************)
OtherMsgs ==
    /\ pc = "others"
    /\ LET allocate == global_output_idx_for_non_notes_this_orig_track = -1
           target == IF allocate THEN next_global_output_track_idx_to_assign
                     ELSE global_output_idx_for_non_notes_this_orig_track
       IN  /\ global_output_idx_for_non_notes_this_orig_track' = target
           /\ next_global_output_track_idx_to_assign' =
                  IF allocate THEN Advance(next_global_output_track_idx_to_assign)
                  ELSE next_global_output_track_idx_to_assign
           /\ all_output_events_for_new_tracks' =
                  AppendAll(all_output_events_for_new_tracks, target, abs_time,
                            current_other_msgs_this_orig_track)
    /\ pc' = "groups"
    /\ UNCHANGED <<tracks, new_mid_tracks, original_track_idx, new_track_idx,
                   events_grouped_by_time_this_orig_track,
                   sorted_abs_times_this_orig_track,
                   rank_to_global_output_idx_map_this_orig_track,
                   active_notes_pitch_to_global_output_idx_this_orig_track,
                   perGroup>>

(***************************************************************************)
(* Line 164: the groups of this original track are exhausted.              *)
(***************************************************************************)
EndTrack ==
    /\ pc = "groups"
    /\ group_i > Len(sorted_abs_times_this_orig_track)
    /\ original_track_idx' = original_track_idx + 1
    /\ pc' = "tracks"
    /\ UNCHANGED <<tracks, new_mid_tracks, all_output_events_for_new_tracks,
                   next_global_output_track_idx_to_assign, new_track_idx,
                   perTrack, perGroup>>

\* Mutant of RelativeTimes: last_abs_time_in_this_new_track is never updated.
AbsoluteTimes(evs) ==
    [i \in 1..Len(evs) |-> [evs[i].msg EXCEPT !.time = evs[i].abs_time]]

\* Lines 184-188: absolute times back to relative times.
RelativeTimes(evs) ==
    [i \in 1..Len(evs) |->
        [evs[i].msg EXCEPT
            !.time = evs[i].abs_time - (IF i = 1 THEN 0 ELSE evs[i - 1].abs_time)]]

\* Line 191.
has_end_of_track(track) ==
    \E i \in 1..Len(track) : track[i].type = "end_of_track"

\* Lines 172-194: the MidiTrack built from a buffer.
MaterializedTrack(events) ==
    LET new_midi_track_obj ==
            IF events = <<>> THEN <<>>
            ELSE RelativeTimes(SortByAbsTime(events))
    IN  IF has_end_of_track(new_midi_track_obj)
        THEN new_midi_track_obj
        ELSE Append(new_midi_track_obj, MetaMessage("end_of_track", 0))

(***************************************************************************)
(* Lines 166-169: every original track is processed.                       *)
(***************************************************************************)
EndTracks ==
    /\ pc = "tracks"
    /\ original_track_idx = Len(tracks)
    /\ new_track_idx' = 0
    /\ pc' = "materialize"
    /\ UNCHANGED <<tracks, new_mid_tracks, all_output_events_for_new_tracks,
                   next_global_output_track_idx_to_assign, original_track_idx,
                   perTrack, perGroup>>

(***************************************************************************)
(* Lines 171-194: materialize one output track.                            *)
(***************************************************************************)
MaterializeTrack ==
    /\ pc = "materialize"
    /\ new_track_idx < next_global_output_track_idx_to_assign
    /\ LET events_for_this_new_track ==
               IF new_track_idx \in DOMAIN all_output_events_for_new_tracks
               THEN all_output_events_for_new_tracks[new_track_idx]
               ELSE <<>>
       IN  /\ new_mid_tracks' =
                  Append(new_mid_tracks, MaterializedTrack(events_for_this_new_track))
           /\ all_output_events_for_new_tracks' =
                  IF events_for_this_new_track = <<>>
                  THEN all_output_events_for_new_tracks
                  ELSE [all_output_events_for_new_tracks EXCEPT
                            ![new_track_idx] = SortByAbsTime(@)]
    /\ new_track_idx' = new_track_idx + 1
    /\ UNCHANGED <<tracks, next_global_output_track_idx_to_assign,
                   original_track_idx, perTrack, perGroup, pc>>

(***************************************************************************)
(* Lines 196-198: all output tracks are built; the file is saved.          *)
(***************************************************************************)
Save ==
    /\ pc = "materialize"
    /\ new_track_idx = next_global_output_track_idx_to_assign
    /\ pc' = "done"
    /\ UNCHANGED <<globals, perTrack, perGroup>>

Next ==
    \/ BeginTrack
    \/ BeginGroup
    \/ NoteOffStep
    \/ NoteOnStep
    \/ OtherMsgs
    \/ EndTrack
    \/ EndTracks
    \/ MaterializeTrack
    \/ Save

Spec == Init /\ [][Next]_vars

SpecMulti == InitMulti /\ [][Next]_vars

SpecChan == InitChan /\ [][Next]_vars

(***************************************************************************)
(* Vocabulary of the properties.                                           *)
(***************************************************************************)
Range(f) == {f[x] : x \in DOMAIN f}

\* The output tracks allocated so far for the original track in progress.
OwnIdx == Range(RankMap) \cup ({NonNoteTarget} \ {-1})

BufferOf(T) == IF T \in DOMAIN Buffers THEN Buffers[T] ELSE <<>>

MsgsOf(buf) == [i \in 1..Len(buf) |-> buf[i].msg]

NotesOf(ms) == {ms[i].note : i \in {j \in 1..Len(ms) : ms[j].type \in {"note_on", "note_off"}}}

Ons(ms, P) == Cardinality({i \in 1..Len(ms) : IsNoteOn(ms[i]) /\ ms[i].note = P})
Offs(ms, P) == Cardinality({i \in 1..Len(ms) : IsNoteOff(ms[i]) /\ ms[i].note = P})
AllOns(ms) == Cardinality({i \in 1..Len(ms) : IsNoteOn(ms[i])})
AllOffs(ms) == Cardinality({i \in 1..Len(ms) : IsNoteOff(ms[i])})

\* The pitches whose sounding instance output track T holds.
Sounding(T) == {P \in DOMAIN ActivePitchMap : ActivePitchMap[P] = T}

\* The note-on the note-on phase is about to route, and its rank.
CurrentNoteOn == sorted_note_ons_in_chord[rank_in_orig_track_chord + 1]

(***************************************************************************)
(* C1  Rank stability.  Inside one original track (every step but the one  *)
(* that enters a new original track) RankMap keeps every entry it has, and *)
(* a note-on of rank R is appended, as the last event, to the buffer of    *)
(* RankMap[R].                                                             *)
(***************************************************************************)
RankKept ==
    \A r \in DOMAIN RankMap : r \in DOMAIN RankMap' /\ RankMap'[r] = RankMap[r]

NoteOnLandsOnRankTrack ==
    LET R == rank_in_orig_track_chord
    IN  /\ R \in DOMAIN RankMap'
        /\ RankMap'[R] \in DOMAIN Buffers'
        /\ Len(Buffers'[RankMap'[R]]) > Len(BufferOf(RankMap'[R]))
        /\ Last(Buffers'[RankMap'[R]]) = Event(abs_time, CurrentNoteOn)

\* C1: inside one original track RankMap never changes an entry, and a
\* note-on of rank R is appended to the buffer of RankMap[R].
RankStability ==
    [][ /\ ~(pc = "tracks" /\ pc' = "groups") => RankKept
        /\ pc = "note_ons" => NoteOnLandsOnRankTrack ]_vars

\* A rank's output track holds note-ons of two different instants.
RankReused ==
    /\ pc = "groups"
    /\ \E T \in Range(RankMap) : \E i, j \in 1..Len(BufferOf(T)) :
          /\ IsNoteOn(Buffers[T][i].msg) /\ IsNoteOn(Buffers[T][j].msg)
          /\ Buffers[T][i].abs_time < Buffers[T][j].abs_time

(***************************************************************************)
(* C2  Retrigger.  A note-on for a pitch P that is in ActivePitchMap       *)
(* appends a NoteOff for P at the onset's time to the buffer of the        *)
(* previous owner, then the NoteOn to the buffer of its rank, touches no   *)
(* other buffer and makes the rank's track the owner of P.  Scenario C     *)
(* yields NoteOn@0, NoteOff@100, NoteOn@100 on output track 0.             *)
(***************************************************************************)
Retriggered ==
    pc = "note_ons" /\ CurrentNoteOn.note \in DOMAIN ActivePitchMap

RetriggerStep ==
    LET m == CurrentNoteOn
        prev == ActivePitchMap[m.note]
        T == RankMap'[rank_in_orig_track_chord]
        off == Event(abs_time, Message("note_off", m.note, 0, m.channel, 0))
        on == Event(abs_time, m)
    IN  /\ ActivePitchMap'[m.note] = T
        /\ IF prev = T
           THEN Buffers'[T] = Buffers[T] \o <<off, on>>
           ELSE /\ Buffers'[prev] = Append(Buffers[prev], off)
                /\ Buffers'[T] = Append(BufferOf(T), on)
        /\ \A X \in DOMAIN Buffers \ {prev, T} : Buffers'[X] = Buffers[X]

ScenarioCOutput ==
    (pc = "done" /\ tracks = ScenarioC) =>
        new_mid_tracks =
            << << Message("note_on", 60, 64, 0, 0), Message("note_off", 60, 0, 0, 100),
                  Message("note_on", 60, 64, 0, 0), MetaMessage("end_of_track", 0) >> >>

\* C2: a retrigger closes the pitch on its previous owner's track at the
\* onset's time and makes the rank's track the new owner.
Retrigger ==
    [][ (Retriggered => RetriggerStep) /\ ScenarioCOutput' ]_vars

\* A synthetic note-off (velocity 0; the inputs' note-offs have velocity 64)
\* lies on a track other than the one that now owns its pitch.
CrossTrackRetrigger ==
    /\ pc = "groups"
    /\ \E T \in DOMAIN Buffers : \E i \in 1..Len(Buffers[T]) :
          LET m == Buffers[T][i].msg
          IN  /\ m.type = "note_off" /\ m.velocity = 0
              /\ m.note \in DOMAIN ActivePitchMap
              /\ ActivePitchMap[m.note] # T

(***************************************************************************)
(* C3  Balance.  On every output track and for every pitch, NoteOns minus  *)
(* NoteOffs is 0 or 1; on every output track of the original track in      *)
(* progress (or just finished) it is 1 exactly for the pitches whose       *)
(* ActivePitchMap entry is that track, so the track's NoteOns minus its    *)
(* NoteOffs is the number of pitches left sounding on it; materializing a  *)
(* track keeps these counts.                                               *)
(***************************************************************************)
BalancedPerPitch(ms) ==
    \A P \in NotesOf(ms) : Ons(ms, P) - Offs(ms, P) \in {0, 1}

BalancedWithActive(ms, T) ==
    /\ \A P \in NotesOf(ms) \cup DOMAIN ActivePitchMap :
          Ons(ms, P) - Offs(ms, P) = (IF P \in Sounding(T) THEN 1 ELSE 0)
    /\ AllOns(ms) - AllOffs(ms) = Cardinality(Sounding(T))

\* C3: NoteOns minus NoteOffs per output track is the number of pitches
\* left sounding on it, and 0 or 1 per pitch.
Balance ==
    /\ \A T \in DOMAIN Buffers : BalancedPerPitch(MsgsOf(Buffers[T]))
    /\ \A T \in OwnIdx : BalancedWithActive(MsgsOf(BufferOf(T)), T)
    /\ \A k \in 1..Len(new_mid_tracks) :
          /\ BalancedPerPitch(new_mid_tracks[k])
          /\ (k - 1) \in OwnIdx => BalancedWithActive(new_mid_tracks[k], k - 1)

\* An output track that closed a note and is left with a sounding one.
LeftSounding ==
    /\ pc = "done"
    /\ \E k \in 1..Len(new_mid_tracks) :
          /\ Cardinality(Sounding(k - 1)) = 1
          /\ AllOffs(new_mid_tracks[k]) >= 1

(***************************************************************************)
(* C4  Non-note messages travel with the highest voice: once the original  *)
(* track has a rank-0 output track, its non-note target is that track (so  *)
(* a dedicated non-note track exists only for a track without note-ons).   *)
(***************************************************************************)
\* C4: the non-note target of a track with a note-on is its rank-0 track.
NonNoteWithHighestVoice ==
    0 \in DOMAIN RankMap => NonNoteTarget = RankMap[0]

(***************************************************************************)
(* C5  Track count.  Whenever control is between original tracks, the      *)
(* global counter is the sum of the contributions of the original tracks   *)
(* processed so far, where a track contributes its largest number of       *)
(* note-ons at one absolute time, plus 1 when one of its non-note messages *)
(* is earlier than all of its note-ons; at the end, as many output tracks  *)
(* as the counter says are emitted.                                        *)
(***************************************************************************)
ChordSize(track, t) ==
    Cardinality({i \in 1..Len(track) : IsNoteOn(track[i]) /\ SumTimes(track, i) = t})

MaxChordSize(track) ==
    LET sizes == {ChordSize(track, SumTimes(track, i)) : i \in 1..Len(track)}
    IN  IF sizes = {} THEN 0 ELSE CHOOSE k \in sizes : \A x \in sizes : x <= k

NonNoteBeforeNotes(track) ==
    \E i \in 1..Len(track) :
        /\ IsOther(track[i])
        /\ \A j \in 1..Len(track) :
              IsNoteOn(track[j]) => SumTimes(track, i) < SumTimes(track, j)

Contribution(track) ==
    MaxChordSize(track) + (IF NonNoteBeforeNotes(track) THEN 1 ELSE 0)

RECURSIVE SumContributions(_)
SumContributions(n) ==
    IF n = 0 THEN 0 ELSE SumContributions(n - 1) + Contribution(tracks[n])

\* C5: the counter, and the number of emitted tracks, is the sum of the
\* original tracks' contributions.
TrackCount ==
    /\ pc = "tracks" =>
          next_global_output_track_idx_to_assign = SumContributions(original_track_idx)
    /\ pc = "done" =>
          /\ Len(new_mid_tracks) = next_global_output_track_idx_to_assign
          /\ Len(new_mid_tracks) = SumContributions(Len(tracks))

\* Two original tracks: one contributes a dedicated non-note track, the
\* other the two ranks of a chord.
CountedThreeTracks ==
    /\ pc = "done"
    /\ Len(tracks) = 2
    /\ NonNoteBeforeNotes(tracks[1])
    /\ MaxChordSize(tracks[2]) = 2
    /\ Len(new_mid_tracks) = 3

(***************************************************************************)
(* C6  Rank assignment by pitch.  When the note-on phase of a time group   *)
(* with n note-ons is over, each of RankMap[0..n-1] holds exactly one      *)
(* NoteOn of that instant, these are the group's note-ons, on pairwise     *)
(* distinct tracks, with pitch non-increasing in the rank; a NoteOff is    *)
(* appended to the own track that holds the open NoteOn of its pitch (and  *)
(* dropped when there is none).  Scenario B puts 67, 64, 60 on tracks 0,   *)
(* 1, 2, each closed by a NoteOff at relative time 480.                    *)
(***************************************************************************)
NoteOnsAt(T, t) ==
    LET Hit(e) == e.abs_time = t /\ e.msg.type = "note_on" /\ e.msg.velocity > 0
    IN  SelectSeq(BufferOf(T), Hit)

Occurrences(ms, m) == Cardinality({i \in 1..Len(ms) : ms[i] = m})

ChordRouted ==
    LET ons == current_note_ons_this_orig_track
        n == Len(ons)
    IN  (/\ pc \in {"others", "groups"}
         /\ group_i > 1
         /\ n > 0
         /\ rank_in_orig_track_chord = n)
        =>
        /\ \A i \in 0..(n - 1) :
              i \in DOMAIN RankMap /\ Len(NoteOnsAt(RankMap[i], abs_time)) = 1
        /\ \A i, j \in 0..(n - 1) :
              i < j =>
                 /\ RankMap[i] # RankMap[j]
                 /\ NoteOnsAt(RankMap[i], abs_time)[1].msg.note
                        >= NoteOnsAt(RankMap[j], abs_time)[1].msg.note
        /\ \A k \in 1..n :
              Occurrences(ons, ons[k]) =
                  Cardinality({i \in 0..(n - 1) :
                                  NoteOnsAt(RankMap[i], abs_time)[1].msg = ons[k]})

OpenNotes(T, P) ==
    LET buf == BufferOf(T)
    IN  Cardinality({i \in 1..Len(buf) :
                        buf[i].msg.note = P /\ buf[i].msg.type = "note_on"
                        /\ buf[i].msg.velocity > 0})
        - Cardinality({i \in 1..Len(buf) :
                        buf[i].msg.note = P
                        /\ (buf[i].msg.type = "note_off" \/ buf[i].msg.velocity = 0)})

NoteOffJoinsItsNoteOn ==
    LET off_msg == current_note_offs_this_orig_track[off_i]
        holders == {T \in OwnIdx : OpenNotes(T, off_msg.note) = 1}
    IN  IF holders = {}
        THEN Buffers' = Buffers
        ELSE \E T \in holders :
                /\ holders = {T}
                /\ Buffers' = [Buffers EXCEPT ![T] = Append(@, Event(abs_time, off_msg))]

ScenarioBOutput ==
    (pc = "done" /\ tracks = ScenarioB) =>
        new_mid_tracks =
            << << Message("note_on", 67, 64, 0, 0), Message("note_off", 67, 64, 0, 480),
                  MetaMessage("end_of_track", 0) >>,
               << Message("note_on", 64, 64, 0, 0), Message("note_off", 64, 64, 0, 480),
                  MetaMessage("end_of_track", 0) >>,
               << Message("note_on", 60, 64, 0, 0), Message("note_off", 60, 64, 0, 480),
                  MetaMessage("end_of_track", 0) >> >>

\* C6: the i-th highest note-on of a time group goes to RankMap[i], and a
\* NoteOff goes to the track of its NoteOn.
RankByPitch ==
    [][ /\ ChordRouted'
        /\ pc = "note_offs" => NoteOffJoinsItsNoteOn
        /\ ScenarioBOutput' ]_vars

\* Scenario B has run to the end.
ScenarioBDone == pc = "done" /\ tracks = ScenarioB

(***************************************************************************)
(* C7  Allocation order.  Every allocation hands out the current counter   *)
(* value, which is larger than every index in use, and moves the counter   *)
(* by one; the buffers in use are 0..counter-1; the indices of the         *)
(* original track in progress form a block that ends at counter-1, and     *)
(* inside it ranks 0, 1, ... have increasing indices.  Scenario E puts     *)
(* track 0's note on output 0 and track 1's note on output 1.              *)
(***************************************************************************)
MinOf(S) == CHOOSE x \in S : \A y \in S : x <= y

IndicesInOrder ==
    /\ DOMAIN Buffers = 0..(next_global_output_track_idx_to_assign - 1)
    /\ OwnIdx # {} =>
          OwnIdx = MinOf(OwnIdx)..(next_global_output_track_idx_to_assign - 1)
    /\ DOMAIN RankMap = 0..(Cardinality(DOMAIN RankMap) - 1)
    /\ \A r \in DOMAIN RankMap :
          (r + 1) \in DOMAIN RankMap => RankMap[r] < RankMap[r + 1]

AllocatesNext ==
    LET next == next_global_output_track_idx_to_assign
        grown == OwnIdx' \ OwnIdx
    IN  /\ grown \subseteq {next}
        /\ next_global_output_track_idx_to_assign' = next + Cardinality(grown)
        /\ \A T \in DOMAIN Buffers : \A N \in grown : T < N

ScenarioEOutput ==
    (pc = "done" /\ tracks = ScenarioE) =>
        new_mid_tracks =
            << << Message("note_on", 60, 64, 0, 0), Message("note_off", 60, 64, 0, 1),
                  MetaMessage("end_of_track", 0) >>,
               << Message("note_on", 64, 64, 0, 0), Message("note_off", 64, 64, 0, 1),
                  MetaMessage("end_of_track", 0) >> >>

\* C7: indices are handed out as 0, 1, 2, ... in processing order.
AllocationOrder ==
    [][ IndicesInOrder' /\ AllocatesNext /\ ScenarioEOutput' ]_vars

\* Scenario E has run to the end.
ScenarioEDone == pc = "done" /\ tracks = ScenarioE

(***************************************************************************)
(* C8  Terminator.  The last message of every materialized output track is *)
(* the end_of_track marker.                                                *)
(***************************************************************************)
\* C8: every materialized output track ends with the terminator.
TerminatorLast ==
    \A k \in 1..Len(new_mid_tracks) :
        Last(new_mid_tracks[k]).type = "end_of_track"

(***************************************************************************)
(* C9  Monophonic voices.  As claimed: in a materialized output track no   *)
(* NoteOn occurs while an earlier NoteOn of the track is not yet           *)
(* terminated by a NoteOff of its pitch (Monophonic).  What holds: a       *)
(* NoteOn occurs while an earlier NoteOn of the track is unterminated only *)
(* if the earlier note has another pitch and a strictly earlier absolute   *)
(* time (OverlapOnlyOfHeldNotes).                                          *)
(***************************************************************************)
Terminated(track, i, j) ==
    \E k \in (i + 1)..(j - 1) :
        IsNoteOff(track[k]) /\ track[k].note = track[i].note

Overlaps(track) ==
    {<<i, j>> \in (1..Len(track)) \X (1..Len(track)) :
        /\ i < j
        /\ IsNoteOn(track[i]) /\ IsNoteOn(track[j])
        /\ ~Terminated(track, i, j)}

\* C9 as claimed: no NoteOn while an earlier NoteOn is unterminated.
Monophonic ==
    \A k \in 1..Len(new_mid_tracks) : Overlaps(new_mid_tracks[k]) = {}

\* C9 as amended: an unterminated earlier NoteOn has another pitch and a
\* strictly earlier absolute time.
OverlapOnlyOfHeldNotes ==
    \A k \in 1..Len(new_mid_tracks) :
        \A o \in Overlaps(new_mid_tracks[k]) :
            /\ new_mid_tracks[k][o[1]].note # new_mid_tracks[k][o[2]].note
            /\ SumTimes(new_mid_tracks[k], o[1]) < SumTimes(new_mid_tracks[k], o[2])

\* A materialized track on which a held note overlaps a later onset, and
\* which also carries a synthetic note-off of a re-sounded pitch.
HeldNoteOverlaps ==
    /\ pc = "done"
    /\ \E k \in 1..Len(new_mid_tracks) :
          /\ Overlaps(new_mid_tracks[k]) # {}
          /\ \E i \in 1..Len(new_mid_tracks[k]) :
                /\ new_mid_tracks[k][i].type = "note_off"
                /\ new_mid_tracks[k][i].velocity = 0

(***************************************************************************)
(* C10  Single melody.  As claimed: one original track of note messages    *)
(* only, no two note-ons at one absolute time, gives one output track,     *)
(* rank 0 only, whose messages before the terminator are the input's       *)
(* (PassThrough).  What holds: the same for a track that has a note-on,    *)
(* in which every NoteOff closes a sounding note of its pitch, no note-on  *)
(* re-sounds a sounding pitch and no NoteOff follows a note-on of the same *)
(* absolute time (MelodyPassThrough).                                      *)
(***************************************************************************)
OnlyNotes(track) ==
    \A i \in 1..Len(track) : IsNoteOn(track[i]) \/ IsNoteOff(track[i])

NoSimultaneousOns(track) ==
    \A i, j \in 1..Len(track) :
        (i < j /\ IsNoteOn(track[i]) /\ IsNoteOn(track[j]))
            => SumTimes(track, i) # SumTimes(track, j)

\* The pitches sounding after the first i messages, in message order.
RECURSIVE OpenAfter(_, _)
OpenAfter(track, i) ==
    IF i = 0 THEN {}
    ELSE IF IsNoteOn(track[i]) THEN OpenAfter(track, i - 1) \cup {track[i].note}
    ELSE IF IsNoteOff(track[i]) THEN OpenAfter(track, i - 1) \ {track[i].note}
    ELSE OpenAfter(track, i - 1)

WellFormedMelody(track) ==
    /\ \E i \in 1..Len(track) : IsNoteOn(track[i])
    /\ \A i \in 1..Len(track) :
          /\ IsNoteOff(track[i]) => track[i].note \in OpenAfter(track, i - 1)
          /\ IsNoteOn(track[i]) => track[i].note \notin OpenAfter(track, i - 1)
    /\ \A i, j \in 1..Len(track) :
          (i < j /\ IsNoteOn(track[i]) /\ IsNoteOff(track[j]))
              => SumTimes(track, i) # SumTimes(track, j)

WithoutTerminator(track) ==
    IF track # <<>> /\ Last(track).type = "end_of_track" THEN Front(track) ELSE track

PassedThrough ==
    /\ Len(new_mid_tracks) = 1
    /\ DOMAIN RankMap \subseteq {0}
    /\ WithoutTerminator(new_mid_tracks[1]) = tracks[1]

\* C10 as claimed: a single track of notes without simultaneous onsets is
\* passed through.
PassThrough ==
    (/\ pc = "done"
     /\ Len(tracks) = 1
     /\ OnlyNotes(tracks[1])
     /\ NoSimultaneousOns(tracks[1]))
    => PassedThrough

\* C10 as amended: a well-formed melody is passed through.
MelodyPassThrough ==
    (/\ pc = "done"
     /\ Len(tracks) = 1
     /\ OnlyNotes(tracks[1])
     /\ NoSimultaneousOns(tracks[1])
     /\ WellFormedMelody(tracks[1]))
    => PassedThrough

\* A well-formed melody of three messages has been passed through.
MelodyDone ==
    /\ pc = "done"
    /\ Len(tracks) = 1
    /\ Len(tracks[1]) = 3
    /\ OnlyNotes(tracks[1])
    /\ NoSimultaneousOns(tracks[1])
    /\ WellFormedMelody(tracks[1])

(***************************************************************************)
(* C11  Non-note and first note at the same instant.  The per-track maps   *)
(* of a state belong to the original track in hand: the one in progress,   *)
(* or the one just finished.  When that track's first non-note message and *)
(* first note-on have the same absolute time, the non-note target is never *)
(* anything but the track of rank 0, and once the track is finished the    *)
(* buffer of that one index holds both the non-note message and the        *)
(* highest note-on of that instant.                                        *)
(***************************************************************************)
TrackInHand ==
    IF pc \in {"tracks", "materialize", "done"}
    THEN original_track_idx
    ELSE original_track_idx + 1

Finished == pc \in {"tracks", "materialize", "done"}

OtherPositions(track) == {i \in 1..Len(track) : IsOther(track[i])}
NoteOnPositions(track) == {i \in 1..Len(track) : IsNoteOn(track[i])}

SameInstant(track) ==
    /\ OtherPositions(track) # {}
    /\ NoteOnPositions(track) # {}
    /\ SumTimes(track, MinOf(OtherPositions(track))) =
           SumTimes(track, MinOf(NoteOnPositions(track)))

MaxOf(S) == CHOOSE x \in S : \A y \in S : y <= x

\* The highest pitch among the note-ons of the track at absolute time t.
TopPitchAt(track, t) ==
    MaxOf({track[i].note : i \in {k \in NoteOnPositions(track) : SumTimes(track, k) = t}})

SharedTrack(track) ==
    LET t == SumTimes(track, MinOf(OtherPositions(track)))
        other == track[MinOf(OtherPositions(track))]
        buf == BufferOf(NonNoteTarget)
    IN  /\ (0 \in DOMAIN RankMap /\ NonNoteTarget # -1) => NonNoteTarget = RankMap[0]
        /\ Finished =>
              /\ 0 \in DOMAIN RankMap
              /\ NonNoteTarget = RankMap[0]
              /\ \E a \in 1..Len(buf) : buf[a] = Event(t, other)
              /\ \E b \in 1..Len(buf) :
                    /\ buf[b].abs_time = t
                    /\ IsNoteOn(buf[b].msg)
                    /\ buf[b].msg.note = TopPitchAt(track, t)

\* C11: when an original track's first non-note message and first note-on
\* have the same absolute time, the non-note message and the rank-0 note-on
\* land on the same output track.
NonNoteJoinsFirstNote ==
    (TrackInHand \in 1..Len(tracks) /\ SameInstant(tracks[TrackInHand]))
        => SharedTrack(tracks[TrackInHand])

\* A tempo message at tick 0 followed by a note-on at tick 0 has been
\* processed to the end.
TempoThenNoteAtZero ==
    /\ pc = "done"
    /\ Len(tracks) = 1 /\ Len(tracks[1]) >= 2
    /\ tracks[1][1] = MetaMessage("set_tempo", 0)
    /\ IsNoteOn(tracks[1][2]) /\ tracks[1][2].time = 0
    /\ Len(new_mid_tracks) >= 1
    /\ \E a, b \in 1..Len(new_mid_tracks[1]) :
          new_mid_tracks[1][a].type = "set_tempo" /\ IsNoteOn(new_mid_tracks[1][b])

(***************************************************************************)
(* C12  Unmatched note-off tolerated.  The step that processes a NoteOff   *)
(* (or a NoteOn of velocity 0) whose pitch is not in ActivePitchMap        *)
(* appends no event, allocates no index, leaves RankMap, ActivePitchMap    *)
(* and NonNoteTarget as they are, and goes on to the next message of the   *)
(* group or to the next phase; such a state always has that step (the      *)
(* code raises nothing for it).                                            *)
(***************************************************************************)
UnmatchedOff ==
    /\ pc = "note_offs"
    /\ current_note_offs_this_orig_track[off_i].note \notin DOMAIN ActivePitchMap

DroppedSilently ==
    /\ Buffers' = Buffers
    /\ next_global_output_track_idx_to_assign' = next_global_output_track_idx_to_assign
    /\ RankMap' = RankMap
    /\ ActivePitchMap' = ActivePitchMap
    /\ NonNoteTarget' = NonNoteTarget
    /\ new_mid_tracks' = new_mid_tracks
    /\ off_i' = off_i + 1
    /\ pc' = IF off_i < Len(current_note_offs_this_orig_track) THEN "note_offs"
             ELSE IF current_note_ons_this_orig_track # <<>> THEN "note_ons"
             ELSE IF current_other_msgs_this_orig_track # <<>> THEN "others"
             ELSE "groups"

\* C12: a NoteOff for a pitch that is not in ActivePitchMap raises nothing
\* and changes nothing; processing continues with the next message.
UnmatchedOffTolerated ==
    /\ [](UnmatchedOff => ENABLED NoteOffStep)
    /\ [][UnmatchedOff => DroppedSilently]_vars

\* An input that starts with a NoteOff and has a NoteOn after it has been
\* processed to the end: the NoteOff is in no output track, the NoteOn is.
UnmatchedOffThenNote ==
    /\ pc = "done"
    /\ Len(tracks) = 1 /\ Len(tracks[1]) >= 2
    /\ IsNoteOff(tracks[1][1])
    /\ \E i \in 2..Len(tracks[1]) : IsNoteOn(tracks[1][i])
    /\ Len(new_mid_tracks) >= 1
    /\ \A k \in 1..Len(new_mid_tracks) : \A i \in 1..Len(new_mid_tracks[k]) :
          ~(IsNoteOff(new_mid_tracks[k][i])
            /\ new_mid_tracks[k][i].note = tracks[1][1].note
            /\ new_mid_tracks[k][i].velocity = tracks[1][1].velocity)

(***************************************************************************)
(* C13  Non-note target is set once.  Inside one original track a set      *)
(* NonNoteTarget never changes; it is set from unset only by the           *)
(* allocation of rank 0 or by the non-note phase, to the index allocated   *)
(* in that step; the non-note phase appends all non-note messages of the   *)
(* group, in order, to the buffer of NonNoteTarget and to no other; so the *)
(* non-note messages of the original track in hand are all in the buffer   *)
(* of that one index.                                                      *)
(***************************************************************************)
EntersTrack == pc = "tracks" /\ pc' = "groups"

SetOnce ==
    (NonNoteTarget # -1 /\ ~EntersTrack) => NonNoteTarget' = NonNoteTarget

SetByFirstUse ==
    (NonNoteTarget = -1 /\ NonNoteTarget' # -1) =>
        /\ NonNoteTarget' = next_global_output_track_idx_to_assign
        /\ next_global_output_track_idx_to_assign' =
               next_global_output_track_idx_to_assign + 1
        /\ \/ pc = "note_ons" /\ rank_in_orig_track_chord = 0
           \/ pc = "others"

OthersToTarget ==
    pc = "others" =>
        /\ NonNoteTarget' # -1
        /\ Buffers'[NonNoteTarget'] =
               BufferOf(NonNoteTarget') \o
                   [i \in 1..Len(current_other_msgs_this_orig_track) |->
                       Event(abs_time, current_other_msgs_this_orig_track[i])]
        /\ \A T \in DOMAIN Buffers \ {NonNoteTarget'} : Buffers'[T] = Buffers[T]

OthersOnOneTrack ==
    /\ \A T \in OwnIdx \ {NonNoteTarget} : \A i \in 1..Len(BufferOf(T)) :
          ~IsOther(Buffers[T][i].msg)
    /\ (Finished /\ TrackInHand \in 1..Len(tracks)) =>
          Cardinality({i \in 1..Len(BufferOf(NonNoteTarget)) :
                          IsOther(Buffers[NonNoteTarget][i].msg)})
              = Cardinality(OtherPositions(tracks[TrackInHand]))

\* C13: NonNoteTarget is set at most once per original track and never
\* changes afterwards; all non-note messages of one original track land on
\* one output track.
NonNoteTargetSetOnce ==
    [][SetOnce /\ SetByFirstUse /\ OthersToTarget /\ OthersOnOneTrack']_vars

\* A non-note message came first and set the target; a later rank-0
\* allocation of the same original track left it alone.
TargetSetBeforeRankZero ==
    /\ pc = "groups"
    /\ NonNoteTarget # -1
    /\ 0 \in DOMAIN RankMap
    /\ RankMap[0] # NonNoteTarget
    /\ \E i \in 1..Len(BufferOf(NonNoteTarget)) :
          \E j \in 1..Len(BufferOf(NonNoteTarget)) :
             /\ IsOther(Buffers[NonNoteTarget][i].msg)
             /\ IsOther(Buffers[NonNoteTarget][j].msg)
             /\ Buffers[NonNoteTarget][i].abs_time < Buffers[NonNoteTarget][j].abs_time

(***************************************************************************)
(* C14  Per-pitch well-formedness.  In every output buffer and in every    *)
(* materialized output track, the NoteOn and NoteOff messages of one pitch *)
(* alternate strictly and start with a NoteOn: the n-th message of a pitch *)
(* is a NoteOn exactly when n is odd.                                      *)
(***************************************************************************)
PitchPositions(ms, P) ==
    {i \in 1..Len(ms) : (IsNoteOn(ms[i]) \/ IsNoteOff(ms[i])) /\ ms[i].note = P}

Alternates(ms) ==
    \A P \in NotesOf(ms) : \A i \in PitchPositions(ms, P) :
        IsNoteOn(ms[i]) <=>
            Cardinality({j \in PitchPositions(ms, P) : j < i}) % 2 = 0

\* C14: on every output track the NoteOns and NoteOffs of one pitch
\* strictly alternate, starting with a NoteOn.
PitchWellFormed ==
    /\ \A T \in DOMAIN Buffers : Alternates(MsgsOf(Buffers[T]))
    /\ \A k \in 1..Len(new_mid_tracks) : Alternates(new_mid_tracks[k])

\* The input holds one pitch twice in one time group and an unmatched
\* NoteOff; the output holds a synthetic NoteOff.
DuplicateAndUnmatched ==
    /\ pc = "done"
    /\ Len(tracks) = 1
    /\ \E i, j \in NoteOnPositions(tracks[1]) :
          /\ i < j
          /\ tracks[1][i].note = tracks[1][j].note
          /\ SumTimes(tracks[1], i) = SumTimes(tracks[1], j)
    /\ \E i \in 1..Len(tracks[1]) :
          /\ IsNoteOff(tracks[1][i])
          /\ \A j \in NoteOnPositions(tracks[1]) : tracks[1][j].note # tracks[1][i].note
    /\ \E k \in 1..Len(new_mid_tracks) : \E i \in 1..Len(new_mid_tracks[k]) :
          new_mid_tracks[k][i].type = "note_off" /\ new_mid_tracks[k][i].velocity = 0

(***************************************************************************)
(* C15  No note-off of a balanced stream is lost.  A stream is balanced    *)
(* when every NoteOff of a pitch has, before it in message order, more     *)
(* NoteOns than NoteOffs of that pitch.  The claim: for balanced input,    *)
(* every input NoteOff is in the output, at its absolute time; this        *)
(* includes a NoteOff at the absolute time of its NoteOn.  (An input       *)
(* NoteOff is not a message of type note_off with velocity 0: those are    *)
(* the synthetic ones.)                                                    *)
(***************************************************************************)
BalancedStream(track) ==
    \A i \in 1..Len(track) :
        IsNoteOff(track[i]) =>
            Cardinality({j \in 1..(i - 1) :
                            IsNoteOn(track[j]) /\ track[j].note = track[i].note})
              > Cardinality({j \in 1..(i - 1) :
                            IsNoteOff(track[j]) /\ track[j].note = track[i].note})

IsSyntheticOff(m) == m.type = "note_off" /\ m.velocity = 0

InputOffsAt(P, t) ==
    {i \in 1..Len(tracks[1]) :
        /\ IsNoteOff(tracks[1][i]) /\ tracks[1][i].note = P
        /\ SumTimes(tracks[1], i) = t}

OutputOffsAt(P, t) ==
    UNION {{<<k, i>> : i \in {n \in 1..Len(new_mid_tracks[k]) :
                /\ IsNoteOff(new_mid_tracks[k][n])
                /\ ~IsSyntheticOff(new_mid_tracks[k][n])
                /\ new_mid_tracks[k][n].note = P
                /\ SumTimes(new_mid_tracks[k], n) = t}} :
           k \in 1..Len(new_mid_tracks)}

\* C15: if every NoteOff of the input is preceded by an unclosed NoteOn of
\* its pitch, every input NoteOff is in the output, also the NoteOff of a
\* zero-length note.
NoNoteOffLost ==
    (pc = "done" /\ Len(tracks) = 1 /\ BalancedStream(tracks[1])) =>
        \A i \in 1..Len(tracks[1]) :
            IsNoteOff(tracks[1][i]) =>
                LET P == tracks[1][i].note
                    t == SumTimes(tracks[1], i)
                IN  Cardinality(OutputOffsAt(P, t)) = Cardinality(InputOffsAt(P, t))

(***************************************************************************)
(* C16  Isolation between original tracks.  The output indices of original *)
(* track j are those from the sum of the earlier tracks' contributions up  *)
(* to, not including, the sum with its own.  While a track is processed,   *)
(* a buffer that changes or appears has an index of that track's block and *)
(* every other buffer stays as it is; when the track is finished, every    *)
(* event in its block is a message of that track at its absolute time, or  *)
(* a synthetic NoteOff at the time of one of its NoteOns; and two equal    *)
(* original tracks, one processed after the other, produce equal blocks.   *)
(***************************************************************************)
Block(j) == SumContributions(j - 1) .. (SumContributions(j) - 1)

Processing == pc \in {"note_offs", "note_ons", "others"}

OnlyOwnBlockTouched ==
    Processing =>
        /\ DOMAIN Buffers \subseteq DOMAIN Buffers'
        /\ \A T \in DOMAIN Buffers' :
              (T \notin DOMAIN Buffers \/ Buffers'[T] # Buffers[T]) =>
                  /\ T >= SumContributions(original_track_idx)
                  /\ T \in Block(original_track_idx + 1)
                  /\ T \in OwnIdx'

FromTrack(track, e) ==
    \/ \E i \in 1..Len(track) : track[i] = e.msg /\ SumTimes(track, i) = e.abs_time
    \/ /\ IsSyntheticOff(e.msg)
       /\ \E i \in NoteOnPositions(track) :
             /\ track[i].note = e.msg.note
             /\ SumTimes(track, i) = e.abs_time

OneOriginalPerOutput ==
    Finished =>
        \A j \in 1..TrackInHand : \A T \in Block(j) :
            /\ T \in DOMAIN Buffers
            /\ \A i \in 1..Len(Buffers[T]) : FromTrack(tracks[j], Buffers[T][i])

EqualTracksEqualBlocks ==
    pc = "done" =>
        \A j \in 2..Len(tracks) :
            tracks[j] = tracks[1] =>
                \A T \in Block(1) :
                    /\ SumContributions(j - 1) + T \in Block(j)
                    /\ Buffers[SumContributions(j - 1) + T] = Buffers[T]
                    /\ new_mid_tracks[SumContributions(j - 1) + T + 1] =
                           new_mid_tracks[T + 1]

\* C16: while an original track is processed only buffers of indices
\* allocated for it change; every output track holds events of one
\* original track, which do not depend on the other original tracks.
TrackIsolation ==
    [][OnlyOwnBlockTouched /\ OneOriginalPerOutput' /\ EqualTracksEqualBlocks']_vars

\* Two original tracks with the same, non-empty content have both been
\* turned into output tracks.
TwoEqualTracksDone ==
    /\ pc = "done"
    /\ Len(tracks) = 2
    /\ tracks[1] = tracks[2]
    /\ \E i \in 1..Len(tracks[1]) : IsNoteOn(tracks[1][i])
    /\ Len(new_mid_tracks) = 2
    /\ new_mid_tracks[1] = new_mid_tracks[2]

(***************************************************************************)
(* C17  Time round trip.  A materialized output track holds the events of  *)
(* its buffer in order, followed by at most one terminator; every relative *)
(* time is non-negative; the first event's relative time is its absolute   *)
(* time; the sum of the relative times up to the k-th event is the k-th    *)
(* event's absolute time, which is the absolute time its message had in    *)
(* the original track.                                                     *)
(***************************************************************************)
Untimed(m) == [m EXCEPT !.time = 0]

RoundTrip(buf, track) ==
    /\ Len(track) \in {Len(buf), Len(buf) + 1}
    /\ \A i \in 1..Len(track) : track[i].time >= 0
    /\ buf # <<>> => track[1].time = buf[1].abs_time
    /\ \A k \in 1..Len(buf) :
          /\ SumTimes(track, k) = buf[k].abs_time
          /\ Untimed(track[k]) = Untimed(buf[k].msg)
          /\ Len(tracks) = 1 => FromTrack(tracks[1], buf[k])

\* C17: the relative times of an output track are non-negative and their
\* running sums are the events' absolute times.
TimeRoundTrip ==
    \A k \in 1..Len(new_mid_tracks) : RoundTrip(BufferOf(k - 1), new_mid_tracks[k])

\* An output track whose first event is later than tick 0 and which holds
\* two events of one instant and a later one.
DeltasRebuilt ==
    /\ pc = "done"
    /\ \E k \in 1..Len(new_mid_tracks) :
          /\ Len(new_mid_tracks[k]) >= 3
          /\ new_mid_tracks[k][1].time > 0
          /\ new_mid_tracks[k][2].time = 0
          /\ new_mid_tracks[k][3].time > 0
          /\ new_mid_tracks[k][3].type # "end_of_track"

(***************************************************************************)
(* C18  Tie order in the materializer.  Every buffer is in non-decreasing  *)
(* order of absolute time at all times, so the sort of the materializer    *)
(* leaves the buffer as it is, and the output track holds the buffer's     *)
(* messages in the order of their insertion.  A retrigger whose previous   *)
(* owner is the track of the new NoteOn inserts the synthetic NoteOff and  *)
(* then the NoteOn, so the NoteOff is emitted first.                       *)
(***************************************************************************)
TimeOrdered(buf) ==
    \A i, j \in 1..Len(buf) : i < j => buf[i].abs_time <= buf[j].abs_time

Materializes ==
    pc = "materialize" /\ new_track_idx < next_global_output_track_idx_to_assign

InsertionOrderKept ==
    LET buf == BufferOf(new_track_idx)
        track == Last(new_mid_tracks')
    IN  /\ Len(new_mid_tracks') = Len(new_mid_tracks) + 1
        /\ Buffers' = Buffers
        /\ Len(track) >= Len(buf)
        /\ \A i \in 1..Len(buf) :
              /\ Untimed(track[i]) = Untimed(buf[i].msg)
              /\ track[i].time >= 0

OffThenOnInserted ==
    LET m == CurrentNoteOn
        T == ActivePitchMap[m.note]
    IN  T = RankMap'[rank_in_orig_track_chord] =>
            /\ Len(Buffers'[T]) = Len(Buffers[T]) + 2
            /\ Buffers'[T][Len(Buffers[T]) + 1].msg.type = "note_off"
            /\ Buffers'[T][Len(Buffers[T]) + 1].msg.note = m.note
            /\ Buffers'[T][Len(Buffers[T]) + 1].abs_time = abs_time
            /\ Buffers'[T][Len(Buffers[T]) + 2] = Event(abs_time, m)

\* C18: events are emitted in non-decreasing absolute time and events of
\* equal time in the order of their insertion; a synthetic NoteOff comes
\* before the NoteOn that triggered it when both are on one track.
TieOrder ==
    /\ [](\A T \in DOMAIN Buffers : TimeOrdered(Buffers[T]))
    /\ [][ /\ Materializes => InsertionOrderKept
           /\ Retriggered => OffThenOnInserted ]_vars

\* An output track holds a synthetic NoteOff directly followed, at the same
\* instant, by a NoteOn of the same pitch, after an earlier NoteOn.
OffBeforeOnEmitted ==
    /\ pc = "done"
    /\ \E k \in 1..Len(new_mid_tracks) : \E i \in 2..Len(new_mid_tracks[k]) :
          /\ i + 1 <= Len(new_mid_tracks[k])
          /\ IsSyntheticOff(new_mid_tracks[k][i])
          /\ IsNoteOn(new_mid_tracks[k][i + 1])
          /\ new_mid_tracks[k][i + 1].note = new_mid_tracks[k][i].note
          /\ new_mid_tracks[k][i + 1].time = 0

(***************************************************************************)
(* C19  Conservation of note-on and non-note messages.  The body of an     *)
(* output track is the track without the terminator the materializer       *)
(* appended.  When all is done, every message of the input that is a       *)
(* NoteOn of positive velocity or a non-note message occurs in the output  *)
(* bodies, at its absolute time and with its content, exactly as often as  *)
(* in the input; an input NoteOff occurs at most as often; every message   *)
(* of an output body is a message of the input at that absolute time or a  *)
(* synthetic NoteOff at the time of an input NoteOn of its pitch; what the *)
(* materializer appended is an end_of_track of relative time 0.  A NoteOff *)
(* whose pitch is in ActivePitchMap is always written.                     *)
(***************************************************************************)
TerminatorAppended(k) == Len(new_mid_tracks[k]) = Len(BufferOf(k - 1)) + 1

Body(k) ==
    IF TerminatorAppended(k) THEN Front(new_mid_tracks[k]) ELSE new_mid_tracks[k]

InputPositions ==
    UNION {{<<j, i>> : i \in 1..Len(tracks[j])} : j \in 1..Len(tracks)}

OutputPositions ==
    UNION {{<<k, i>> : i \in 1..Len(Body(k))} : k \in 1..Len(new_mid_tracks)}

InputCount(m, t) ==
    Cardinality({p \in InputPositions :
        /\ Untimed(tracks[p[1]][p[2]]) = Untimed(m)
        /\ SumTimes(tracks[p[1]], p[2]) = t})

OutputCount(m, t) ==
    Cardinality({p \in OutputPositions :
        /\ Untimed(Body(p[1])[p[2]]) = Untimed(m)
        /\ SumTimes(Body(p[1]), p[2]) = t})

Conserved ==
    /\ \A p \in InputPositions :
          LET m == tracks[p[1]][p[2]]
              t == SumTimes(tracks[p[1]], p[2])
          IN  IF IsNoteOff(m)
              THEN OutputCount(m, t) <= InputCount(m, t)
              ELSE OutputCount(m, t) = InputCount(m, t)
    /\ \A p \in OutputPositions :
          LET m == Body(p[1])[p[2]]
              t == SumTimes(Body(p[1]), p[2])
          IN  \/ InputCount(m, t) > 0
              \/ /\ IsSyntheticOff(m)
                 /\ \E q \in InputPositions :
                       /\ IsNoteOn(tracks[q[1]][q[2]])
                       /\ tracks[q[1]][q[2]].note = m.note
                       /\ SumTimes(tracks[q[1]], q[2]) = t
    /\ \A k \in 1..Len(new_mid_tracks) :
          TerminatorAppended(k) =>
              Last(new_mid_tracks[k]) = MetaMessage("end_of_track", 0)

MatchedOffWritten ==
    (pc = "note_offs" /\ ~UnmatchedOff) =>
        LET off_msg == current_note_offs_this_orig_track[off_i]
            T == ActivePitchMap[off_msg.note]
        IN  Buffers'[T] = Append(Buffers[T], Event(abs_time, off_msg))

\* C19: every NoteOn and every non-note message of the input is in the
\* output exactly once, at its absolute time and unchanged; only unmatched
\* NoteOffs are removed; only synthetic NoteOffs and terminators are added.
Conservation ==
    /\ [](pc = "done" => Conserved)
    /\ [][MatchedOffWritten]_vars

\* An input with two non-note messages at one instant and a NoteOn has
\* been turned into output tracks.
TwoNonNotesAndNoteDone ==
    /\ pc = "done"
    /\ Len(tracks) = 1
    /\ \E i, j \in OtherPositions(tracks[1]) :
          i < j /\ SumTimes(tracks[1], i) = SumTimes(tracks[1], j)
    /\ NoteOnPositions(tracks[1]) # {}
    /\ new_mid_tracks # <<>>

(***************************************************************************)
(* C20  Channel consistency of note termination.  On an output track the   *)
(* NoteOn a NoteOff terminates is the last earlier message of its pitch    *)
(* (C14: a NoteOn).  The claim: every NoteOff of an output track, original *)
(* or synthetic, has the channel of the NoteOn it terminates.              *)
(***************************************************************************)
TerminatedNoteOn(ms, i) ==
    MaxOf({j \in PitchPositions(ms, ms[i].note) : j < i})

SameChannelAsNoteOn(ms) ==
    \A i \in 1..Len(ms) :
        (IsNoteOff(ms[i]) /\ \E j \in PitchPositions(ms, ms[i].note) : j < i) =>
            ms[i].channel = ms[TerminatedNoteOn(ms, i)].channel

\* C20: every NoteOff written to an output track carries the channel of
\* the open NoteOn of its pitch on that track.
ChannelConsistent ==
    \A k \in 1..Len(new_mid_tracks) : SameChannelAsNoteOn(new_mid_tracks[k])

====
